---- MODULE Spec2Model ----
(***************************************************************************)
(* Model of the job-result normalisation done by the four adapters of the  *)
(* repository around the Xiaomi job-search API:                            *)
(*   console  - print_job_results      (src/sample-query.py)               *)
(*   mcp      - format_job_results     (src/xiaomi_jobs_mcp.py)            *)
(*   rest     - search_jobs_internal   (src/fastapi_wrapper.py)            *)
(*   agent    - _handle_job_search     (src/google_a2a_sample.py)          *)
(*                                                                         *)
(* A Python dict is a TLA+ function whose domain is the set of keys that   *)
(* are present, so `"k" in d` is "k" \in DOMAIN d and d.get(k, default)    *)
(* is Get(d, k, default).  Values whose Python type the code tests with    *)
(* isinstance (the location values) carry a type tag.  Long texts          *)
(* (description, requirement) are sequences of one-character strings.      *)
(***************************************************************************)
EXTENDS Integers, Sequences, FiniteSets, TLC

VARIABLES
    adapter,    \* which adapter handles the call
    limit,      \* the limit of the caller's search query
    raw,        \* the raw response document handed to the adapter
    pc,         \* "search": about to post the query; "call": about to
                \* normalise; "done": the adapter returned
    outcome,    \* what the adapter returned (NoOutcome before it returns)
    query,      \* keyword, offset and location_codes of the caller's query
    payload,    \* the JSON body posted to the search API (NoPayload: none)
    now,        \* the wall clock, read by datetime.now()
    previous,   \* the outcome of the first of two invocations on `raw`
    active_webhooks,  \* the REST wrapper's registry: a list of references
                      \* to webhook dicts (a reference is the dict's key
                      \* in `webhooks`)
    webhooks,         \* every webhook dict created so far, by reference
    monitor,          \* the monitoring loop of each webhook: "running"
                      \* (scheduled or asleep between iterations), "exited"
    active_tasks,     \* the agent's task table: task_id -> TaskStatus
    stdin,            \* the requests the tool-protocol client wrote
    workers,          \* concurrent calls of the adapters: each call's
                      \* adapter, argument, position and local values
    documents,        \* the raw response documents the calls were given,
                      \* by reference
    stdout,           \* what the calls printed, in the order of the writes
    event             \* the operation that made the last step, with its
                      \* inputs and its response

\* the variables of the search-and-normalise paths
searchVars == <<adapter, limit, raw, pc, outcome, query, payload, now, previous>>

\* the variables of the services around them
others ==
    <<active_webhooks, webhooks, monitor, active_tasks, stdin, workers, documents,
      stdout, event>>

vars == <<searchVars, others>>

(***************************************************************************)
(* Bounds of the model.                                                    *)
(***************************************************************************)
\* largest offset of the enumerated queries
MaxOffset == 1
\* latest reading of the wall clock
MaxClock == 1
\* most webhooks ever registered
MaxWebhooks == 3
\* most notifications counted for one webhook
MaxNotifications == 1
\* longest job_post_list of the enumerated raw responses
MaxJobs == 2
\* largest limit of the enumerated search queries
MaxLimit == 2

(***************************************************************************)
(* Python values.                                                          *)
(***************************************************************************)
\* Python's None (JSON null), kept apart from every string of the inputs.
None == "<None>"

EmptyDict == [k \in {} |-> ""]

\* d.get(k, default)
Get(d, k, default) == IF k \in DOMAIN d THEN d[k] ELSE default

\* bool(s) of a string-or-None value: None and "" are falsy.
TruthyStr(s) == s # None /\ s # ""

\* Tagged values for the fields the code inspects with isinstance(.., dict).
PyStr(s) == [t |-> "str", s |-> s]
PyDict(d) == [t |-> "dict", d |-> d]
PyNull == [t |-> "none"]

\* bool(v) of a tagged value: None, "" and {} are falsy.
Truthy(v) ==
    CASE v.t = "none" -> FALSE
      [] v.t = "str"  -> v.s # ""
      [] v.t = "dict" -> DOMAIN v.d # {}

\* str(d) of a location dict; the enumerated location dicts have the keys
\* "name" and "code" at most, in that order.
StrOfDict(d) ==
    CASE DOMAIN d = {} -> "{}"
      [] DOMAIN d = {"name"} -> "{'name': '" \o d.name \o "'}"
      [] DOMAIN d = {"code"} -> "{'code': '" \o d.code \o "'}"
      [] OTHER -> "{'name': '" \o d.name \o "', 'code': '" \o d.code \o "'}"

\* str(v) of a tagged value
StrOf(v) ==
    CASE v.t = "none" -> "None"
      [] v.t = "str"  -> v.s
      [] v.t = "dict" -> StrOfDict(v.d)

(***************************************************************************)
(* Text helpers (Python str methods on sequences of characters).           *)
(***************************************************************************)
\* preview bound of description, console and tool-protocol adapters
DescBound == 150
\* preview bound of requirement, console and tool-protocol adapters
ReqBound == 100
\* slice bound of the REST adapter
RestBound == 200
\* slice bound of the agent adapter
AgentBound == 300

Ellipsis == <<".", ".", ".">>

\* the characters str.strip() removes
Whitespace == {" ", "\t", "\n", "\r", "\f"}

\* txt.replace(old, new) for one-character old and new
Replace(txt, old, new) ==
    [i \in 1..Len(txt) |-> IF txt[i] = old THEN new ELSE txt[i]]

\* txt.strip()
Strip(txt) ==
    LET keep == {i \in 1..Len(txt) : txt[i] \notin Whitespace}
    IN  IF keep = {} THEN <<>>
        ELSE LET first == CHOOSE i \in keep : \A j \in keep : i <= j
                 last  == CHOOSE i \in keep : \A j \in keep : j <= i
             IN  SubSeq(txt, first, last)

\* txt[:n]
Slice(txt, n) == SubSeq(txt, 1, IF Len(txt) < n THEN Len(txt) ELSE n)

\* ", ".join(strs)
RECURSIVE Join(_)
Join(strs) ==
    IF Len(strs) = 0 THEN ""
    ELSE IF Len(strs) = 1 THEN strs[1]
    ELSE strs[1] \o ", " \o Join(Tail(strs))

\* a description that is the JSON number 42 instead of a string: the one
\* element is not a character
NotAString == <<"42">>

\* isinstance(text, str): every element is one character
IsStr(text) == \A k \in 1..Len(text) : Len(text[k]) = 1

\* str methods and slicing applied to a job's text fields raise on a number:
\* 42.replace is an AttributeError, 42[:200] a TypeError
text_raises(job) ==
    \/ ~IsStr(Get(job, "description", <<>>))
    \/ ~IsStr(Get(job, "requirement", <<>>))

\* the loop over job_posts raises at the first such job
jobs_raise(job_posts) == \E i \in 1..Len(job_posts) : text_raises(job_posts[i])

\* mutant of CleanPreview: `>=` in the length test
CleanPreview_ge(text, bound) ==
    IF text = <<>> THEN <<>>
    ELSE LET clean == Strip(Replace(Replace(text, "\n", " "), "\r", " "))
         IN  IF Len(clean) >= bound THEN Slice(clean, bound) \o Ellipsis
             ELSE clean

\* console and tool-protocol preview of a text field: printed only when the
\* text is non-empty; newlines and carriage returns become spaces, the result
\* is stripped, and cut to `bound` characters plus "..." when it is longer.
CleanPreview(text, bound) ==
    IF text = <<>> THEN <<>>
    ELSE LET clean == Strip(Replace(Replace(text, "\n", " "), "\r", " "))
         IN  IF Len(clean) > bound THEN Slice(clean, bound) \o Ellipsis
             ELSE clean

\* REST and agent preview: text[:bound] + "..." if text else ""
SlicePreview(text, bound) ==
    IF text # <<>> THEN Slice(text, bound) \o Ellipsis ELSE <<>>

(***************************************************************************)
(* Location extraction.  The same code is inlined in print_job_results     *)
(* (sample-query.py 160-172), format_job_results (xiaomi_jobs_mcp.py       *)
(* 96-108) and search_jobs_internal (fastapi_wrapper.py 193-204), and is   *)
(* the method _extract_locations of the agent.                             *)
(***************************************************************************)
\* one location value: the dict's name, else its string form; str() otherwise
single_location(city) ==
    IF city.t = "dict" THEN Get(city.d, "name", StrOfDict(city.d))
    ELSE StrOf(city)

\* mutant of extract_locations: only `job['city_list'][0]` is taken
extract_locations_first_city(job) ==
    IF Truthy(Get(job, "city_info", PyNull))
    THEN <<single_location(job.city_info)>>
    ELSE IF Len(Get(job, "city_list", <<>>)) > 0
         THEN <<single_location(job.city_list[1])>>
         ELSE <<>>

\* mutant of extract_locations: `if 'city_info' in job`
extract_locations_key_present(job) ==
    IF "city_info" \in DOMAIN job
    THEN <<single_location(job.city_info)>>
    ELSE IF Len(Get(job, "city_list", <<>>)) > 0
         THEN [i \in 1..Len(job.city_list) |-> single_location(job.city_list[i])]
         ELSE <<>>

extract_locations(job) ==
    IF Truthy(Get(job, "city_info", PyNull))
    THEN <<single_location(job.city_info)>>
    ELSE IF Len(Get(job, "city_list", <<>>)) > 0
         THEN [i \in 1..Len(job.city_list) |-> single_location(job.city_list[i])]
         ELSE <<>>

(***************************************************************************)
(* One normalised record per adapter.  The fields carry the names of the   *)
(* specification's NormalizedJobRecord; the adapter's own key is noted.    *)
(***************************************************************************)
UrlPrefix == "https://xiaomi.jobs.f.mioffice.cn/index/position/"

\* mutant of detail_url: a missing id is shown as "N/A", like the other fields
detail_url_na(id) == UrlPrefix \o (IF id = "" THEN "N/A" ELSE id) \o "/detail"

detail_url(id) == UrlPrefix \o id \o "/detail"

\* print_job_results, body of the loop over job_posts
print_job(job) ==
    LET locations == extract_locations(job)
    IN  [ title              |-> Get(job, "title", "N/A"),
          code               |-> Get(job, "code", "N/A"),
          locations          |-> locations,
          location_str       |-> IF Len(locations) > 0 THEN Join(locations) ELSE "N/A",
          recruitType        |-> Get(job, "recruit_type", "N/A"),
          id                 |-> Get(job, "id", ""),
          detailUrl          |-> detail_url(Get(job, "id", "")),
          descriptionPreview |-> CleanPreview(Get(job, "description", <<>>), DescBound),
          requirementPreview |-> CleanPreview(Get(job, "requirement", <<>>), ReqBound) ]

\* format_job_results, body of the loop over job_posts
format_job(job) ==
    LET locations == extract_locations(job)
    IN  [ title              |-> Get(job, "title", "N/A"),
          code               |-> Get(job, "code", "N/A"),
          locations          |-> locations,
          location_str       |-> IF Len(locations) > 0 THEN Join(locations) ELSE "N/A",
          recruitType        |-> Get(job, "recruit_type", "N/A"),
          id                 |-> Get(job, "id", ""),
          detailUrl          |-> detail_url(Get(job, "id", "")),
          descriptionPreview |-> CleanPreview(Get(job, "description", <<>>), DescBound),
          requirementPreview |-> CleanPreview(Get(job, "requirement", <<>>), ReqBound) ]

\* mutant of rest_job: each formatted job is stamped with the time of the call
rest_job_stamped(job) ==
    [ id                 |-> Get(job, "id", None),
      title              |-> Get(job, "title", None),
      code               |-> Get(job, "code", None),
      descriptionPreview |-> SlicePreview(Get(job, "description", <<>>), RestBound),
      requirementPreview |-> SlicePreview(Get(job, "requirement", <<>>), RestBound),
      recruitType        |-> Get(job, "recruit_type", None),
      detailUrl          |-> detail_url(Get(job, "id", "")),
      locations          |-> extract_locations(job),
      fetched_at         |-> now ]

\* search_jobs_internal, formatted_job: the keys id, title, code, description,
\* requirements, recruit_type, url, locations
rest_job(job) ==
    [ id                 |-> Get(job, "id", None),
      title              |-> Get(job, "title", None),
      code               |-> Get(job, "code", None),
      descriptionPreview |-> SlicePreview(Get(job, "description", <<>>), RestBound),
      requirementPreview |-> SlicePreview(Get(job, "requirement", <<>>), RestBound),
      recruitType        |-> Get(job, "recruit_type", None),
      detailUrl          |-> detail_url(Get(job, "id", "")),
      locations          |-> extract_locations(job) ]

\* _handle_job_search, formatted_job: the keys id, title, code, description,
\* requirements, type, url, locations
agent_job(job) ==
    [ id                 |-> Get(job, "id", None),
      title              |-> Get(job, "title", None),
      code               |-> Get(job, "code", None),
      descriptionPreview |-> SlicePreview(Get(job, "description", <<>>), AgentBound),
      requirementPreview |-> SlicePreview(Get(job, "requirement", <<>>), AgentBound),
      recruitType        |-> Get(job, "recruit_type", None),
      detailUrl          |-> detail_url(Get(job, "id", "")),
      locations          |-> extract_locations(job) ]

(***************************************************************************)
(* The four normalisers.  An outcome is a record with kind "Success" or    *)
(* "Failure"; a failure's text is prefix \o reason, where reason is the    *)
(* interpolated (or fixed) message.  The error glyph that starts the       *)
(* console and tool-protocol failure lines is left out of the prefixes.    *)
(***************************************************************************)
\* mutant of CodeNotZero: the status check applies only when code is present
CodePresentAndNotZero(data) == "code" \in DOMAIN data /\ data.code # 0

\* `data.get("code") != 0`: true when the key is missing (None != 0)
CodeNotZero(data) == "code" \notin DOMAIN data \/ data.code # 0

\* mutant of total_count: `data_section.get("count") or len(job_posts)`
total_count_or_len(data_section, job_posts) ==
    IF "count" \in DOMAIN data_section /\ data_section.count # 0
    THEN data_section.count
    ELSE Len(job_posts)

\* `data_section.get("count", len(job_posts))`; the same expression is used by
\* all four adapters (sample-query.py 145, xiaomi_jobs_mcp.py 84,
\* fastapi_wrapper.py 176, google_a2a_sample.py 260)
total_count(data_section, job_posts) ==
    Get(data_section, "count", Len(job_posts))

\* the loop `for i, job in enumerate(job_posts, 1)` of print_job_results
RECURSIVE print_jobs(_, _)
print_jobs(job_posts, printed) ==
    IF job_posts = <<>> THEN printed
    ELSE print_jobs(Tail(job_posts), Append(printed, print_job(Head(job_posts))))

\* console adapter: print_job_results(data)
print_job_results(data) ==
    IF TruthyStr(Get(data, "error", None))
    THEN [kind |-> "Failure", prefix |-> "Error: ", reason |-> data.error]
    ELSE IF CodeNotZero(data)
    THEN [kind |-> "Failure", prefix |-> "API Error: ",
          reason |-> Get(data, "message", "Unknown error")]
    ELSE IF "data" \notin DOMAIN data
    THEN [kind |-> "Failure", prefix |-> "",
          reason |-> "No 'data' key found in response"]
    ELSE IF "job_post_list" \notin DOMAIN data.data
    THEN [kind |-> "Failure", prefix |-> "",
          reason |-> "No 'job_post_list' key found in data section"]
    ELSE LET job_posts == data.data.job_post_list
         IN  IF jobs_raise(job_posts)
             THEN [kind |-> "Raised", exception |-> "AttributeError"]
             ELSE [kind       |-> "Success",
                   totalCount |-> total_count(data.data, job_posts),
                   shown      |-> Len(job_posts),
                   records    |-> print_jobs(job_posts, <<>>)]

\* mutant of no_job_data: `not data.get("data", {}).get("job_post_list")`
no_job_data_falsy(data) ==
    Len(Get(Get(data, "data", EmptyDict), "job_post_list", <<>>)) = 0

\* `"data" not in data or "job_post_list" not in data["data"]`
no_job_data(data) ==
    "data" \notin DOMAIN data \/ "job_post_list" \notin DOMAIN data.data

\* mutant of format_jobs: each formatted job is inserted at the front
RECURSIVE format_jobs_prepend(_, _)
format_jobs_prepend(job_posts, result) ==
    IF job_posts = <<>> THEN result
    ELSE format_jobs_prepend(Tail(job_posts), <<format_job(Head(job_posts))>> \o result)

\* the loop `for i, job in enumerate(job_posts, 1)` of format_job_results
RECURSIVE format_jobs(_, _)
format_jobs(job_posts, result) ==
    IF job_posts = <<>> THEN result
    ELSE format_jobs(Tail(job_posts), Append(result, format_job(Head(job_posts))))

\* tool-protocol adapter: format_job_results(data)
format_job_results(data) ==
    IF TruthyStr(Get(data, "error", None))
    THEN [kind |-> "Failure", prefix |-> "Error: ", reason |-> data.error]
    ELSE IF CodeNotZero(data)
    THEN [kind |-> "Failure", prefix |-> "API Error: ",
          reason |-> Get(data, "message", "Unknown error")]
    ELSE IF no_job_data(data)
    THEN [kind |-> "Failure", prefix |-> "",
          reason |-> "No job data found in response"]
    ELSE LET job_posts == data.data.job_post_list
         IN  IF jobs_raise(job_posts)
             THEN [kind |-> "Raised", exception |-> "AttributeError"]
             ELSE [kind       |-> "Success",
                   totalCount |-> total_count(data.data, job_posts),
                   shown      |-> Len(job_posts),
                   records    |-> format_jobs(job_posts, <<>>)]

\* the loop `for job in job_posts` of search_jobs_internal
RECURSIVE rest_jobs(_, _)
rest_jobs(job_posts, formatted_jobs) ==
    IF job_posts = <<>> THEN formatted_jobs
    ELSE rest_jobs(Tail(job_posts), Append(formatted_jobs, rest_job(Head(job_posts))))

\* mutant of search_jobs_internal: on a non-zero status the response still
\* carries the formatted jobs and their count beside the message
search_jobs_internal_partial(results) ==
    IF TruthyStr(Get(results, "error", None))
    THEN [kind |-> "Failure", totalCount |-> 0, records |-> <<>>,
          prefix |-> "", reason |-> results.error]
    ELSE LET data      == Get(results, "data", EmptyDict)
             job_posts == Get(data, "job_post_list", <<>>)
         IN  IF jobs_raise(job_posts)
             THEN [kind |-> "Raised", exception |-> "HTTPException 500"]
             ELSE IF CodeNotZero(results)
             THEN [kind       |-> "Failure",
                   totalCount |-> total_count(data, job_posts),
                   records    |-> rest_jobs(job_posts, <<>>),
                   prefix     |-> "",
                   reason     |-> Get(results, "message", "API error")]
             ELSE [kind       |-> "Success",
                   totalCount |-> total_count(data, job_posts),
                   records    |-> rest_jobs(job_posts, <<>>),
                   prefix     |-> "",
                   reason     |-> None]

\* REST adapter: search_jobs_internal, from the returned `results` on.
\* JobSearchResponse(success, total_count, jobs, message): success is kind,
\* total_count is totalCount, jobs is records, message is reason (None: unset).
\* An exception in the body is re-raised as HTTPException(status_code=500).
search_jobs_internal(results) ==
    IF TruthyStr(Get(results, "error", None))
    THEN [kind |-> "Failure", totalCount |-> 0, records |-> <<>>,
          prefix |-> "", reason |-> results.error]
    ELSE IF CodeNotZero(results)
    THEN [kind |-> "Failure", totalCount |-> 0, records |-> <<>>,
          prefix |-> "", reason |-> Get(results, "message", "API error")]
    ELSE LET data      == Get(results, "data", EmptyDict)
             job_posts == Get(data, "job_post_list", <<>>)
         IN  IF jobs_raise(job_posts)
             THEN [kind |-> "Raised", exception |-> "HTTPException 500"]
             ELSE [kind       |-> "Success",
                   totalCount |-> total_count(data, job_posts),
                   records    |-> rest_jobs(job_posts, <<>>),
                   prefix     |-> "",
                   reason     |-> None]

\* the loop `for job in job_posts` of _handle_job_search
RECURSIVE agent_jobs(_, _)
agent_jobs(job_posts, formatted_jobs) ==
    IF job_posts = <<>> THEN formatted_jobs
    ELSE agent_jobs(Tail(job_posts), Append(formatted_jobs, agent_job(Head(job_posts))))

\* mutant of handle_job_search: the error marker is not checked
handle_job_search_unchecked(results) ==
    LET jobs_data == Get(results, "data", EmptyDict)
        job_posts == Get(jobs_data, "job_post_list", <<>>)
    IN  IF jobs_raise(job_posts)
        THEN [kind |-> "Failure", prefix |-> "Task failed: ",
              reason |-> "'int' object is not subscriptable"]
        ELSE [kind             |-> "Success",
              totalCount       |-> total_count(jobs_data, job_posts),
              records          |-> agent_jobs(job_posts, <<>>),
              search_timestamp |-> now]

\* agent adapter: _handle_job_search from the returned `results` on, as seen
\* through process_task: a raised exception ends the task "failed" with the
\* message "Task failed: <exception>", a returned artifact ends it "completed".
\* The artifact carries search_timestamp, the clock at the time of the call.
handle_job_search(results) ==
    IF TruthyStr(Get(results, "error", None))
    THEN [kind |-> "Failure", prefix |-> "Task failed: ", reason |-> results.error]
    ELSE LET jobs_data == Get(results, "data", EmptyDict)
             job_posts == Get(jobs_data, "job_post_list", <<>>)
         IN  IF jobs_raise(job_posts)
             THEN [kind |-> "Failure", prefix |-> "Task failed: ",
                   reason |-> "'int' object is not subscriptable"]
             ELSE [kind             |-> "Success",
                   totalCount       |-> total_count(jobs_data, job_posts),
                   records          |-> agent_jobs(job_posts, <<>>),
                   search_timestamp |-> now]

(***************************************************************************)
(* The enumerated inputs.                                                  *)
(***************************************************************************)
\* every dict of S, and every dict of S extended with key k valued in V
WithOpt(S, k, V) == S \cup {(k :> v) @@ d : d \in S, v \in V}

\* all sequences over S of length at most n
SeqsUpTo(S, n) == UNION {[1..m -> S] : m \in 0..n}

ShortText == <<"A", "\n", "b", " ">>

\* longest run of whitespace put before and after a generated text
MaxPad == 1

\* n copies of the character c
Rep(c, n) == [i \in 1..n |-> c]

\* n characters of text; with `lines`, a newline and a carriage return inside
Body(n, lines) ==
    [i \in 1..n |-> IF lines /\ i = 2 THEN "\n"
                    ELSE IF lines /\ i = 3 THEN "\r" ELSE "a"]

\* lengths on both sides of every preview bound of the console and
\* tool-protocol adapters, and 200 characters
BodyLengths ==
    {1, ReqBound - 1, ReqBound, ReqBound + 1,
     DescBound - 1, DescBound, DescBound + 1, RestBound}

\* description and requirement texts around the bounds, with and without
\* surrounding whitespace
LongTexts ==
    { Rep(" ", l) \o Body(n, lines) \o Rep("\n", t) :
        l \in 0..MaxPad, t \in 0..MaxPad, n \in BodyLengths, lines \in BOOLEAN }

\* location values: null, strings, dicts with and without "name"
CityValues ==
    { PyNull, PyStr(""), PyStr("Shenzhen"), PyDict(EmptyDict),
      PyDict([name |-> "Beijing"]), PyDict([code |-> "c1"]) }

CityLists ==
    { <<>>,
      <<PyDict([name |-> "A"]), PyDict([name |-> "B"])>>,
      <<PyStr("C"), PyDict([code |-> "c1"])>> }

\* raw job records: every key optional
RawJobRecords ==
    WithOpt(WithOpt(WithOpt(WithOpt(WithOpt(WithOpt(WithOpt(WithOpt(
        {EmptyDict},
        "id", {"12345"}),
        "title", {"Engineer"}),
        "code", {"J1"}),
        "recruit_type", {"social"}),
        "city_info", CityValues),
        "city_list", CityLists),
        "description", {<<>>, ShortText}),
        "requirement", {ShortText})

\* the job records the enumerated lists are built from
ListJobs ==
    { EmptyDict,
      [id |-> "9", title |-> "Engineer", code |-> "J9", recruit_type |-> "social",
       city_info |-> PyDict([name |-> "Shenzhen"]), description |-> ShortText],
      [title |-> "Manager",
       city_list |-> <<PyDict([name |-> "A"]), PyDict([name |-> "B"])>>],
      [id |-> "8", title |-> "Clerk", description |-> NotAString] }

\* job records with one long text field
TextJobs ==
    {[id |-> "7", description |-> t] : t \in LongTexts}
        \cup {[id |-> "7", requirement |-> t] : t \in LongTexts}

\* the `data` object: count and job_post_list optional
DataDocs ==
    WithOpt(WithOpt({EmptyDict},
        "count", {0, 7}),
        "job_post_list", SeqsUpTo(ListJobs, MaxJobs))

\* raw response documents: error, code, message and data optional
RawResponses ==
    WithOpt(WithOpt(WithOpt(WithOpt({EmptyDict},
        "error", {"", "Request failed: timeout"}),
        "code", {0, 1}),
        "message", {"denied"}),
        "data", DataDocs)

\* successful responses holding one job record each
SingleJobResponses ==
    { [code |-> 0, data |-> [count |-> 1, job_post_list |-> <<job>>]] :
        job \in RawJobRecords }

\* successful responses with one job that carries a long text
TextResponses == {[code |-> 0, data |-> [job_post_list |-> <<j>>]] : j \in TextJobs}

Adapters == {"console", "mcp", "rest", "agent"}

\* the limit the callers pass when none is given (search_jobs_internal)
DefaultLimit == 10

NoOutcome == [kind |-> "None"]

\* the query of a caller that passes a limit only
DefaultQuery == [keyword |-> "", offset |-> 0, location_codes |-> <<>>]

NoPayload == [posted |-> FALSE]

\* no response received yet
NoResponse == [pending |-> TRUE]

NoEvent == [op |-> "none"]

\* the services hold nothing: no webhook, no task, no client request
OthersIdle ==
    /\ active_webhooks = <<>>
    /\ webhooks = EmptyDict
    /\ monitor = EmptyDict
    /\ active_tasks = EmptyDict
    /\ stdin = <<>>
    /\ workers = <<>>
    /\ documents = <<>>
    /\ stdout = <<>>
    /\ event = NoEvent

(***************************************************************************)
(* The state machine: an adapter is handed a raw response and returns.     *)
(***************************************************************************)
Init ==
    /\ adapter \in Adapters
    /\ \/ raw \in RawResponses /\ limit \in 1..MaxLimit
       \/ raw \in SingleJobResponses /\ limit = DefaultLimit
       \/ raw \in TextResponses /\ limit = DefaultLimit
    /\ pc = "call"
    /\ outcome = NoOutcome
    /\ query = DefaultQuery
    /\ payload = NoPayload
    /\ now = 0
    /\ previous = NoOutcome
    /\ OthersIdle

PrintJobResults ==
    /\ pc = "call" /\ adapter = "console"
    /\ outcome' = print_job_results(raw)
    /\ pc' = "done"
    /\ UNCHANGED <<adapter, limit, raw, query, payload, now, previous, others>>

FormatJobResults ==
    /\ pc = "call" /\ adapter = "mcp"
    /\ outcome' = format_job_results(raw)
    /\ pc' = "done"
    /\ UNCHANGED <<adapter, limit, raw, query, payload, now, previous, others>>

SearchJobsInternal ==
    /\ pc = "call" /\ adapter = "rest"
    /\ outcome' = search_jobs_internal(raw)
    /\ pc' = "done"
    /\ UNCHANGED <<adapter, limit, raw, query, payload, now, previous, others>>

HandleJobSearch ==
    /\ pc = "call" /\ adapter = "agent"
    /\ outcome' = handle_job_search(raw)
    /\ pc' = "done"
    /\ UNCHANGED <<adapter, limit, raw, query, payload, now, previous, others>>

Next ==
    \/ PrintJobResults
    \/ FormatJobResults
    \/ SearchJobsInternal
    \/ HandleJobSearch

Spec == Init /\ [][Next]_vars

(***************************************************************************)
(* Two invocations of the same adapter on the same raw response, with the  *)
(* clock free to advance between them.                                     *)
(***************************************************************************)
InitRepeat ==
    /\ adapter \in Adapters
    /\ raw \in RawResponses
    /\ limit = DefaultLimit
    /\ pc = "call"
    /\ outcome = NoOutcome
    /\ query = DefaultQuery
    /\ payload = NoPayload
    /\ now = 0
    /\ previous = NoOutcome
    /\ OthersIdle

\* time passes after the first invocation returned
Tick ==
    /\ pc = "done" /\ previous = NoOutcome
    /\ now < MaxClock
    /\ now' = now + 1
    /\ UNCHANGED <<adapter, limit, raw, pc, outcome, query, payload, previous, others>>

\* the caller keeps the first outcome and invokes the adapter again
InvokeAgain ==
    /\ pc = "done" /\ previous = NoOutcome
    /\ previous' = outcome
    /\ outcome' = NoOutcome
    /\ pc' = "call"
    /\ UNCHANGED <<adapter, limit, raw, query, payload, now, others>>

NextRepeat ==
    \/ PrintJobResults
    \/ FormatJobResults
    \/ SearchJobsInternal
    \/ HandleJobSearch
    \/ Tick
    \/ InvokeAgain

SpecRepeat == InitRepeat /\ [][NextRepeat]_vars

(***************************************************************************)
(* Search and normalise: the caller's query is posted to the search API,   *)
(* the transport answers with a response document or fails, and the        *)
(* adapter normalises what came back.  Besides the four adapters there is  *)
(* the script xiaomi-search.py ("script"), which prints the document.      *)
(***************************************************************************)
\* the payload of xiaomi_jobs_query (sample-query.py and xiaomi_jobs_mcp.py
\* build the same dict); the filter lists the callers never pass are empty
xiaomi_jobs_query_payload(keyword, lim, offset, location_code_list) ==
    [ keyword               |-> keyword,
      limit                 |-> lim,
      offset                |-> offset,
      job_category_id_list  |-> <<>>,
      tag_id_list           |-> <<>>,
      location_code_list    |-> location_code_list,
      subject_id_list       |-> <<>>,
      recruitment_id_list   |-> <<>>,
      portal_type           |-> 6,
      job_function_id_list  |-> <<>>,
      storefront_id_list    |-> <<>>,
      portal_entrance       |-> 1 ]

\* the payload of XiaomiJobsDirectAPI.search_jobs(keyword, limit)
search_jobs_payload(keyword, lim) ==
    [ keyword               |-> keyword,
      limit                 |-> lim,
      offset                |-> 0,
      job_category_id_list  |-> <<>>,
      tag_id_list           |-> <<>>,
      location_code_list    |-> <<>>,
      subject_id_list       |-> <<>>,
      recruitment_id_list   |-> <<>>,
      portal_type           |-> 6,
      job_function_id_list  |-> <<>>,
      storefront_id_list    |-> <<>>,
      portal_entrance       |-> 1 ]

\* the payload of get_xiaomi_jobs(keyword, limit, offset, location_codes)
get_xiaomi_jobs_payload(keyword, lim, offset, location_codes) ==
    [ keyword               |-> keyword,
      limit                 |-> lim,
      offset                |-> offset,
      job_category_id_list  |-> <<>>,
      tag_id_list           |-> <<>>,
      location_code_list    |-> location_codes,
      subject_id_list       |-> <<>>,
      recruitment_id_list   |-> <<>>,
      portal_type           |-> 6,
      job_function_id_list  |-> <<>>,
      storefront_id_list    |-> <<>>,
      portal_entrance       |-> 1 ]

\* what the search API answers when the transport works: jobs, a refusal,
\* a list with an entry of unexpected shape, a document without data
UpstreamResponses ==
    { [code |-> 0, data |-> [count |-> 7, job_post_list |->
          <<[id |-> "9", title |-> "Engineer", description |-> ShortText]>>]],
      [code |-> 1, message |-> "denied"],
      [code |-> 0, data |-> [job_post_list |->
          <<[id |-> "9", title |-> "Engineer"],
            [id |-> "8", title |-> "Clerk", description |-> NotAString]>>]],
      [code |-> 0] }

\* the caller's queries
Queries ==
    [ keyword        : {"", "python"},
      offset         : 0..MaxOffset,
      location_codes : {<<>>, <<"CN_440300">>} ]

SearchPaths == Adapters \cup {"script"}

InitSearch ==
    /\ adapter \in SearchPaths
    /\ query \in Queries
    /\ limit \in 1..MaxLimit
    /\ raw = NoResponse
    /\ pc = "search"
    /\ outcome = NoOutcome
    /\ payload = NoPayload
    /\ now = 0
    /\ previous = NoOutcome
    /\ OthersIdle

\* console: xiaomi_jobs_query of sample-query.py; every exception of the
\* request becomes an error document
XiaomiJobsQuery ==
    /\ pc = "search" /\ adapter = "console"
    /\ payload' = xiaomi_jobs_query_payload(query.keyword, limit, query.offset,
                                            query.location_codes)
    /\ \/ \E doc \in UpstreamResponses : raw' = doc
       \/ raw' = [error |-> "Request Error: timeout"]
    /\ pc' = "call"
    /\ UNCHANGED <<adapter, limit, outcome, query, now, previous, others>>

\* tool protocol: handle_call_tool passes keyword, limit, offset and
\* location_codes on to xiaomi_jobs_query of xiaomi_jobs_mcp.py
HandleCallTool ==
    /\ pc = "search" /\ adapter = "mcp"
    /\ payload' = xiaomi_jobs_query_payload(query.keyword, limit, query.offset,
                                            query.location_codes)
    /\ \/ \E doc \in UpstreamResponses : raw' = doc
       \/ raw' = [error |-> "Request failed: timeout"]
    /\ pc' = "call"
    /\ UNCHANGED <<adapter, limit, outcome, query, now, previous, others>>

\* REST and agent: both call jobs_api.search_jobs(keyword=keyword, limit=limit)
SearchJobs ==
    /\ pc = "search" /\ adapter \in {"rest", "agent"}
    /\ payload' = search_jobs_payload(query.keyword, limit)
    /\ \/ \E doc \in UpstreamResponses : raw' = doc
       \/ raw' = [error |-> "Request failed: timeout"]
    /\ pc' = "call"
    /\ UNCHANGED <<adapter, limit, outcome, query, now, previous, others>>

\* script: get_xiaomi_jobs has no try/except; a failed request leaves it as
\* an exception, otherwise the script prints the document
GetXiaomiJobs ==
    /\ pc = "search" /\ adapter = "script"
    /\ payload' = get_xiaomi_jobs_payload(query.keyword, limit, query.offset,
                                          query.location_codes)
    /\ \/ \E doc \in UpstreamResponses :
            /\ raw' = doc
            /\ outcome' = [kind |-> "Printed", document |-> doc]
       \/ /\ raw' = raw
          /\ outcome' = [kind |-> "Raised", exception |-> "ConnectionError"]
    /\ pc' = "done"
    /\ UNCHANGED <<adapter, limit, query, now, previous, others>>

NextSearch ==
    \/ XiaomiJobsQuery
    \/ HandleCallTool
    \/ SearchJobs
    \/ GetXiaomiJobs
    \/ PrintJobResults
    \/ FormatJobResults
    \/ SearchJobsInternal
    \/ HandleJobSearch

SpecSearch == InitSearch /\ [][NextSearch]_vars

(***************************************************************************)
(* The webhook registry of the REST wrapper and the monitoring loops.      *)
(* The coroutines run on one event loop: a handler, and a loop iteration   *)
(* from its `while` test to its `await asyncio.sleep`, is one step.        *)
(* A webhook dict is shared by reference between the registry and its      *)
(* loop; `webhooks` is the heap of dicts and a reference is an index into  *)
(* it.  created_at (the time of registration) is taken distinct for every  *)
(* registration, so that `webhook in active_webhooks`, which compares      *)
(* dicts by value, holds exactly for the dicts that are in the list.       *)
(***************************************************************************)
\* datetime.isoformat()
IsoFormat(t) == "T" \o ToString(t)

\* the search paths stand still while the services run
SearchIdle ==
    /\ adapter = "rest"
    /\ limit = DefaultLimit
    /\ raw = NoResponse
    /\ pc = "idle"
    /\ outcome = NoOutcome
    /\ query = DefaultQuery
    /\ payload = NoPayload
    /\ now = 0
    /\ previous = NoOutcome

WebhookRequests ==
    [ keyword : {"python"},
      webhook_url : {"http://hook"},
      check_interval_minutes : {60} ]

\* what jobs_api.search_jobs returns to the loop: an error document, no
\* jobs, one job, a document whose data is null
MonitorResults ==
    { [error |-> "Request failed: timeout"],
      [code |-> 0, data |-> [job_post_list |-> <<>>]],
      [code |-> 0, data |-> [count |-> 1, job_post_list |->
          <<[id |-> "9", title |-> "Engineer"]>>]],
      [code |-> 0, data |-> PyNull] }

\* what requests.post to the webhook URL does: a response, or an exception
PostResults ==
    { [status_code |-> 200], [status_code |-> 500],
      [raised |-> "ConnectionError"] }

\* no notification was posted in the iteration
NotPosted == [posted |-> FALSE]

\* register_webhook: the dict it builds; `created` stands for datetime.now()
register_webhook(active, request, created) ==
    [ id                     |-> Len(active) + 1,
      keyword                |-> request.keyword,
      webhook_url            |-> request.webhook_url,
      check_interval_minutes |-> request.check_interval_minutes,
      created_at             |-> IsoFormat(created),
      last_check             |-> None,
      total_notifications    |-> 0 ]

\* next((w for w in active_webhooks if w["id"] == webhook_id), None)
find_webhook(active, heap, webhook_id) ==
    \E i \in 1..Len(active) : heap[active[i]].id = webhook_id

\* mutant of delete_webhook: `del active_webhooks[webhook_id - 1]`
delete_webhook_by_index(active, heap, webhook_id) ==
    [i \in 1..(Len(active) - 1) |->
        IF i < webhook_id THEN active[i] ELSE active[i + 1]]

\* delete_webhook: [w for w in active_webhooks if w["id"] != webhook_id]
delete_webhook(active, heap, webhook_id) ==
    LET keep(ref) == heap[ref].id # webhook_id
    IN  SelectSeq(active, keep)

\* mutant of still_registered: `while True`
still_registered_forever(ref, active) == TRUE

\* the loop test `webhook in active_webhooks`
still_registered(ref, active) == \E i \in 1..Len(active) : active[i] = ref

\* results.get("data", {}).get("job_post_list") raises on a null data
iteration_raises(results) ==
    "data" \in DOMAIN results /\ results.data = PyNull

\* `if results.get("data", {}).get("job_post_list")`
has_jobs(results) ==
    Len(Get(Get(results, "data", EmptyDict), "job_post_list", <<>>)) > 0

\* mutant of notified: the status of the response is not looked at
notified_any_status(results, response) ==
    has_jobs(results) /\ "status_code" \in DOMAIN response

\* the notification was posted and answered with status 200
notified(results, response) ==
    /\ has_jobs(results)
    /\ "status_code" \in DOMAIN response
    /\ response.status_code = 200

\* one pass through the body of `while webhook in active_webhooks`: the
\* webhook dict after it
monitoring_iteration(webhook, results, response, t) ==
    IF iteration_raises(results) THEN webhook
    ELSE [webhook EXCEPT
            !.total_notifications = IF notified(results, response) THEN @ + 1 ELSE @,
            !.last_check = IsoFormat(t)]

\* mutant of heap_after_iteration: the loop looks its webhook up by keyword
\* and writes to every dict it finds
heap_after_iteration_by_keyword(heap, ref, results, response, t) ==
    [j \in 1..Len(heap) |->
        IF heap[j].keyword = heap[ref].keyword
        THEN monitoring_iteration(heap[j], results, response, t)
        ELSE heap[j]]

\* the dicts after the loop of `ref` wrote to the dict it holds: the list
\* holds the same dict, so the registry sees the new fields
heap_after_iteration(heap, ref, results, response, t) ==
    [heap EXCEPT ![ref] = monitoring_iteration(@, results, response, t)]

InitWebhooks == SearchIdle /\ OthersIdle

RegisterWebhook ==
    /\ Len(webhooks) < MaxWebhooks
    /\ \E request \in WebhookRequests :
         LET ref     == Len(webhooks) + 1
             webhook == register_webhook(active_webhooks, request, ref)
         IN  /\ webhooks' = Append(webhooks, webhook)
             /\ active_webhooks' = Append(active_webhooks, ref)
             /\ monitor' = Append(monitor, "running")
             /\ event' = [op |-> "register", ref |-> ref,
                          webhook_id |-> webhook.id, status |-> 200]
    /\ UNCHANGED <<searchVars, active_tasks, stdin, workers, documents, stdout>>

DeleteWebhook ==
    /\ \E webhook_id \in 1..MaxWebhooks :
         IF find_webhook(active_webhooks, webhooks, webhook_id)
         THEN /\ active_webhooks' = delete_webhook(active_webhooks, webhooks, webhook_id)
              /\ event' = [op |-> "delete", webhook_id |-> webhook_id, status |-> 200]
         ELSE /\ active_webhooks' = active_webhooks
              /\ event' = [op |-> "delete", webhook_id |-> webhook_id, status |-> 404]
    /\ UNCHANGED <<searchVars, webhooks, monitor, active_tasks, stdin, workers, documents, stdout>>

\* the loop of webhook `ref` wakes up, finds its webhook on the list, runs
\* the body and goes to sleep
MonitorIteration(ref) ==
    /\ monitor[ref] # "exited"
    /\ still_registered(ref, active_webhooks)
    /\ webhooks[ref].total_notifications < MaxNotifications
    /\ \E results \in MonitorResults :
       \E response \in IF ~iteration_raises(results) /\ has_jobs(results)
                        THEN PostResults ELSE {NotPosted} :
         /\ webhooks' = heap_after_iteration(webhooks, ref, results, response, now)
         /\ event' = [op |-> "iterate", ref |-> ref,
                      results |-> results, response |-> response]
    /\ UNCHANGED <<searchVars, active_webhooks, monitor, active_tasks, stdin, workers, documents, stdout>>

\* the loop wakes up and its webhook is gone from the list
MonitorExit(ref) ==
    /\ monitor[ref] # "exited"
    /\ ~still_registered(ref, active_webhooks)
    /\ monitor' = [monitor EXCEPT ![ref] = "exited"]
    /\ event' = [op |-> "exit", ref |-> ref]
    /\ UNCHANGED <<searchVars, active_webhooks, webhooks, active_tasks, stdin, workers, documents, stdout>>

NextWebhooks ==
    \/ RegisterWebhook
    \/ DeleteWebhook
    \/ \E ref \in 1..Len(webhooks) : MonitorIteration(ref)
    \/ \E ref \in 1..Len(webhooks) : MonitorExit(ref)

SpecWebhooks == InitWebhooks /\ [][NextWebhooks]_vars

(***************************************************************************)
(* The agent's tasks: process_task, its four handlers and the status       *)
(* endpoint.  Instructions, keywords and messages are strings.             *)
(***************************************************************************)
UpperCase == "ABCDEFGHIJKLMNOPQRSTUVWXYZ"
LowerCase == "abcdefghijklmnopqrstuvwxyz"

\* the i-th character of a string, as a string
CharAt(str, i) == SubSeq(str, i, i)

\* the lower-case letter of every upper-case letter
LowerMap ==
    [c \in {CharAt(UpperCase, i) : i \in 1..Len(UpperCase)} |->
        CharAt(LowerCase, CHOOSE i \in 1..Len(UpperCase) : CharAt(UpperCase, i) = c)]

\* str.lower() of one character
LowerChar(c) == IF c \in DOMAIN LowerMap THEN LowerMap[c] ELSE c

\* str.lower()
RECURSIVE lower_from(_, _)
lower_from(str, i) ==
    IF i > Len(str) THEN "" ELSE LowerChar(CharAt(str, i)) \o lower_from(str, i + 1)

Lower(str) == lower_from(str, 1)

\* `pattern in str`
Contains(str, pattern) ==
    \E i \in 1..(Len(str) - Len(pattern) + 1) :
        SubSeq(str, i, i + Len(pattern) - 1) = pattern

\* str.split(): the words between runs of spaces
RECURSIVE split_from(_, _, _, _)
split_from(str, i, word, words) ==
    IF i > Len(str)
    THEN IF word = "" THEN words ELSE Append(words, word)
    ELSE IF CharAt(str, i) = " "
    THEN split_from(str, i + 1, "", IF word = "" THEN words ELSE Append(words, word))
    ELSE split_from(str, i + 1, word \o CharAt(str, i), words)

Split(str) == split_from(str, 1, "", <<>>)

\* _handle_job_search: the keyword of the context, else the word that
\* follows the first "for", "about" or "in" that has a word after it
extract_keyword(instruction, context) ==
    IF Get(context, "keyword", "") # "" THEN context.keyword
    ELSE LET words == Split(instruction)
             hits  == {i \in 1..(Len(words) - 1) : words[i] \in {"for", "about", "in"}}
         IN  IF hits = {} THEN ""
             ELSE words[(CHOOSE i \in hits : \A j \in hits : i <= j) + 1]

\* mutant of dispatch: the market test comes before the search test
dispatch_market_first(instruction) ==
    IF Contains(instruction, "analyze") \/ Contains(instruction, "market")
    THEN "_handle_market_analysis"
    ELSE IF Contains(instruction, "search") \/ Contains(instruction, "find jobs")
    THEN "_handle_job_search"
    ELSE IF Contains(instruction, "recommend") \/ Contains(instruction, "suggest")
    THEN "_handle_job_recommendations"
    ELSE "_handle_general_query"

\* the if/elif chain of process_task on the lower-cased instruction
dispatch(instruction) ==
    IF Contains(instruction, "search") \/ Contains(instruction, "find jobs")
    THEN "_handle_job_search"
    ELSE IF Contains(instruction, "analyze") \/ Contains(instruction, "market")
    THEN "_handle_market_analysis"
    ELSE IF Contains(instruction, "recommend") \/ Contains(instruction, "suggest")
    THEN "_handle_job_recommendations"
    ELSE "_handle_general_query"

\* jobs[:n]
FirstJobs(jobs, n) == SubSeq(jobs, 1, IF Len(jobs) < n THEN Len(jobs) ELSE n)

\* _handle_job_search as a handler: it raises, or returns its artifact
job_search_result(instruction, context, results) ==
    LET found == handle_job_search(results)
    IN  IF found.kind = "Failure"
        THEN [raised |-> TRUE, exception |-> found.reason]
        ELSE [raised |-> FALSE,
              artifact |->
                [type    |-> "job_search_results",
                 content |-> [query            |-> extract_keyword(instruction, context),
                              total_count      |-> found.totalCount,
                              jobs             |-> found.records,
                              search_timestamp |-> IsoFormat(found.search_timestamp)],
                 format  |-> "application/json"]]

\* _handle_market_analysis: one search per category; a category is entered
\* when its count is truthy and its job list can be read.  The upstream is
\* taken to answer every search of one task alike.
market_analysis_result(instruction, context, results) ==
    LET categories == {"AI", "engineer", "developer", "manager", "designer"}
        data       == Get(results, "data", EmptyDict)
        entered    == /\ Get(data, "count", 0) # 0
                      /\ "job_post_list" \in DOMAIN data
        jobs       == FirstJobs(Get(data, "job_post_list", <<>>), 3)
        entry      == [total_jobs    |-> Get(data, "count", 0),
                       sample_titles |-> [i \in 1..Len(jobs) |-> Get(jobs[i], "title", "N/A")]]
    IN  [raised |-> FALSE,
         artifact |->
           [type    |-> "market_analysis",
            content |-> [analysis_date  |-> IsoFormat(now),
                         job_categories |-> IF entered
                                            THEN [c \in categories |-> entry]
                                            ELSE EmptyDict,
                         most_active    |-> IF entered THEN "AI" ELSE "N/A"],
            format  |-> "application/json"]]

\* the recommendations one skill contributes
skill_recommendations(skill, results) ==
    LET jobs == Get(Get(results, "data", EmptyDict), "job_post_list", <<>>)
    IN  [i \in 1..Len(jobs) |->
           [title          |-> Get(jobs[i], "title", None),
            code           |-> Get(jobs[i], "code", None),
            matching_skill |-> skill,
            url            |-> detail_url(Get(jobs[i], "id", "")),
            locations      |-> extract_locations(jobs[i])]]

\* _handle_job_recommendations with the default skills ["python", "AI"]
job_recommendations_result(instruction, context, results) ==
    [raised |-> FALSE,
     artifact |->
       [type    |-> "job_recommendations",
        content |-> [user_profile |->
                        [experience_level |-> "mid",
                         preferred_skills |-> <<"python", "AI">>],
                     recommendations |->
                        FirstJobs(skill_recommendations("python", results)
                                    \o skill_recommendations("AI", results), 10),
                     recommendation_timestamp |-> IsoFormat(now)],
        format  |-> "application/json"]]

\* _handle_general_query
general_query_result(instruction, context, results) ==
    LET data == Get(results, "data", EmptyDict)
        jobs == FirstJobs(Get(data, "job_post_list", <<>>), 5)
    IN  [raised |-> FALSE,
         artifact |->
           [type    |-> "general_info",
            content |-> [total_jobs  |-> Get(data, "count", 0),
                         sample_jobs |-> [i \in 1..Len(jobs) |->
                                            [title |-> Get(jobs[i], "title", None),
                                             code  |-> Get(jobs[i], "code", None)]],
                         query_timestamp |-> IsoFormat(now)],
            format  |-> "application/json"]]

\* the handler the instruction is dispatched to, run
handler_result(handler, instruction, context, results) ==
    CASE handler = "_handle_job_search" ->
            job_search_result(instruction, context, results)
      [] handler = "_handle_market_analysis" ->
            market_analysis_result(instruction, context, results)
      [] handler = "_handle_job_recommendations" ->
            job_recommendations_result(instruction, context, results)
      [] OTHER -> general_query_result(instruction, context, results)

\* a Python list / None for TaskStatus.artifacts
PyList(items) == [t |-> "list", items |-> items]

\* mutant of process_task: the except branch does not set the status
process_task_failed_in_progress(task_id, request_instruction, context, results) ==
    LET instruction == Lower(request_instruction)
        result == handler_result(dispatch(instruction), instruction, context, results)
    IN  IF result.raised
        THEN [task_id |-> task_id, status |-> "in_progress", progress |-> 0,
              message |-> "Task failed: " \o result.exception,
              artifacts |-> PyNull,
              created_at |-> IsoFormat(now), updated_at |-> IsoFormat(now)]
        ELSE [task_id |-> task_id, status |-> "completed", progress |-> 1,
              message |-> "Task completed successfully",
              artifacts |-> PyList(<<result.artifact>>),
              created_at |-> IsoFormat(now), updated_at |-> IsoFormat(now)]

\* process_task: the TaskStatus it leaves in active_tasks and returns;
\* progress 0.0 and 1.0 are written 0 and 1
process_task(task_id, request_instruction, context, results) ==
    LET instruction == Lower(request_instruction)
        result == handler_result(dispatch(instruction), instruction, context, results)
    IN  IF result.raised
        THEN [task_id |-> task_id, status |-> "failed", progress |-> 0,
              message |-> "Task failed: " \o result.exception,
              artifacts |-> PyNull,
              created_at |-> IsoFormat(now), updated_at |-> IsoFormat(now)]
        ELSE [task_id |-> task_id, status |-> "completed", progress |-> 1,
              message |-> "Task completed successfully",
              artifacts |-> PyList(<<result.artifact>>),
              created_at |-> IsoFormat(now), updated_at |-> IsoFormat(now)]

TaskIds == {"t1", "t2"}

Instructions ==
    { "Search for python jobs", "FIND JOBS in Beijing", "find a job",
      "Market search", "analyze and recommend", "Suggest a market",
      "recommend", "I suggest", "hello" }

Contexts == {EmptyDict, [keyword |-> "ai"]}

\* what jobs_api.search_jobs returns to a handler: a transport error, jobs,
\* a list with an entry of unexpected shape
TaskResults ==
    { [error |-> "Request failed: timeout"],
      [code |-> 0, data |-> [count |-> 7, job_post_list |->
          <<[id |-> "9", title |-> "Engineer", code |-> "J9"]>>]],
      [code |-> 0, data |-> [job_post_list |->
          <<[id |-> "9", title |-> "Engineer"],
            [id |-> "8", title |-> "Clerk", description |-> NotAString]>>]] }

InitTasks == SearchIdle /\ OthersIdle

\* POST /task: create_task awaits process_task and returns its TaskStatus
ProcessTask ==
    /\ \E task_id \in TaskIds, instruction \in Instructions,
          context \in Contexts, results \in TaskResults :
         LET task_status == process_task(task_id, instruction, context, results)
         IN  /\ active_tasks' = (task_id :> task_status) @@ active_tasks
             /\ event' = [op |-> "process_task", task_id |-> task_id,
                          instruction |-> instruction, context |-> context,
                          results |-> results, response |-> task_status]
    /\ UNCHANGED <<searchVars, active_webhooks, webhooks, monitor, stdin, workers, documents, stdout>>

\* GET /task/{task_id}/status
GetTaskStatus ==
    /\ \E task_id \in TaskIds \cup {"t0"} :
         event' = IF task_id \in DOMAIN active_tasks
                  THEN [op |-> "get_task_status", task_id |-> task_id,
                        status |-> 200, response |-> active_tasks[task_id]]
                  ELSE [op |-> "get_task_status", task_id |-> task_id,
                        status |-> 404]
    /\ UNCHANGED <<searchVars, active_webhooks, webhooks, monitor, active_tasks,
                   stdin, workers, documents, stdout>>

NextTasks ==
    \/ ProcessTask
    \/ GetTaskStatus

SpecTasks == InitTasks /\ [][NextTasks]_vars

(***************************************************************************)
(* The tool-protocol client (a2a_sample.py, XiaomiJobsMCPClient).  One     *)
(* call starts the server as a subprocess, writes its two requests to the  *)
(* server's standard input, waits for the server to exit and scans the     *)
(* lines of its standard output.  A line of the output is blank, text that *)
(* json.loads rejects, or a JSON value.                                    *)
(***************************************************************************)
\* most output lines the server is made to print
MaxLines == 2

\* the default of the `limit` parameter
McpLimit == 5

init_request ==
    [jsonrpc |-> "2.0", id |-> 0, method |-> "initialize",
     params  |-> [protocolVersion |-> "2024-11-05",
                  capabilities    |-> EmptyDict,
                  clientInfo      |-> [name |-> "a2a-sample", version |-> "1.0.0"]]]

mcp_request(keyword, lim) ==
    [jsonrpc |-> "2.0", id |-> 1, method |-> "tools/call",
     params  |-> [name      |-> "search_xiaomi_jobs",
                  arguments |-> [keyword |-> keyword, limit |-> lim]]]

\* a changed client that sends the call before the initialization
written_input_call_first(keyword, lim) == <<mcp_request(keyword, lim), init_request>>

\* init_json + request_json, one request per line
written_input(keyword, lim) == <<init_request, mcp_request(keyword, lim)>>

BlankLine == [kind |-> "blank"]
TextLine == [kind |-> "text"]
JsonLine(value) == [kind |-> "json", value |-> value]

TextContent(text) == [type |-> "text", text |-> text]

\* the lines a server can print: its answers to the two requests, an error
\* answer, an answer to another request, an answer without content, a
\* result that has no `content`, and a JSON value that is not an object
OutputLines ==
    { BlankLine, TextLine,
      JsonLine(PyDict([jsonrpc |-> "2.0", id |-> 0,
                       result |-> [protocolVersion |-> "2024-11-05"]])),
      JsonLine(PyDict([jsonrpc |-> "2.0", id |-> 1,
                       result |-> [content |-> <<TextContent("Found 1 jobs")>>]])),
      JsonLine(PyDict([jsonrpc |-> "2.0", id |-> 1,
                       result |-> [content |-> <<TextContent("No jobs found."),
                                                 TextContent("more")>>]])),
      JsonLine(PyDict([jsonrpc |-> "2.0", id |-> 1,
                       result |-> [content |-> <<>>]])),
      JsonLine(PyDict([jsonrpc |-> "2.0", id |-> 1,
                       error |-> [code |-> 0, message |-> "Unknown tool"]])),
      JsonLine(PyDict([jsonrpc |-> "2.0", id |-> 2,
                       result |-> [content |-> <<TextContent("other")>>]])),
      JsonLine(PyDict([jsonrpc |-> "2.0", id |-> 1,
                       result |-> [isError |-> TRUE]])),
      JsonLine(PyList(<<>>)) }

\* what the subprocess does: it cannot be started, it fails (with or without
\* a line of output), or it exits normally after printing some lines
ProcessRuns ==
    {[spawned |-> FALSE, exception |-> "[Errno 24] Too many open files"]}
    \cup [spawned: {TRUE}, returncode: {1}, stderr: {"", "Traceback"},
          stdout: SeqsUpTo(OutputLines, 1)]
    \cup [spawned: {TRUE}, returncode: {0}, stderr: {""},
          stdout: SeqsUpTo(OutputLines, MaxLines)]

Returned(text) == [kind |-> "Returned", text |-> text]
Raising(text) == [kind |-> "Raised", text |-> text]
Continue == [kind |-> "Continue"]

\* the body of the `for line in lines` loop for one line
scan_line(line) ==
    IF line.kind = "blank" THEN Continue                  \* if line.strip()
    ELSE IF line.kind = "text" THEN Continue              \* JSONDecodeError
    ELSE LET response == line.value
         IN  IF response.t # "dict"
             THEN Raising("'list' object has no attribute 'get'")
             ELSE IF /\ "id" \in DOMAIN response.d
                     /\ response.d.id = 1
                     /\ "result" \in DOMAIN response.d
                  THEN IF "content" \notin DOMAIN response.d.result
                       THEN Raising("'content'")
                       ELSE LET content == response.d.result.content
                            IN  IF Len(content) > 0
                                THEN IF "text" \in DOMAIN content[1]
                                     THEN Returned(content[1].text)
                                     ELSE Raising("'text'")
                                ELSE Continue
                  ELSE Continue

RECURSIVE scan_lines(_, _)
scan_lines(lines, i) ==
    IF i > Len(lines)
    THEN Returned("No valid response from MCP server")
    ELSE LET step == scan_line(lines[i])
         IN  IF step = Continue THEN scan_lines(lines, i + 1) ELSE step

\* the statements inside the try block
search_jobs_via_mcp_body(process) ==
    IF ~process.spawned THEN Raising(process.exception)
    ELSE IF process.returncode # 0
         THEN Returned("MCP Error: " \o process.stderr)
         ELSE scan_lines(process.stdout, 1)

\* try: ... except Exception as e: return f"MCP Client Error: {str(e)}"
search_jobs_via_mcp(process) ==
    LET result == search_jobs_via_mcp_body(process)
    IN  IF result.kind = "Raised"
        THEN Returned("MCP Client Error: " \o result.text)
        ELSE result

InitMcpClient == SearchIdle /\ OthersIdle

\* one call of search_jobs_via_mcp, from the start of the server to the return
SearchJobsViaMcp ==
    \E keyword \in {"", "python"}, process \in ProcessRuns :
        /\ stdin' = IF process.spawned THEN written_input(keyword, McpLimit) ELSE <<>>
        /\ event' = [op       |-> "search_jobs_via_mcp",
                     keyword  |-> keyword,
                     process  |-> process,
                     response |-> search_jobs_via_mcp(process)]
        /\ UNCHANGED <<searchVars, active_webhooks, webhooks, monitor,
                       active_tasks, workers,
                       documents, stdout>>

NextMcpClient == SearchJobsViaMcp

SpecMcpClient == InitMcpClient /\ [][NextMcpClient]_vars

(***************************************************************************)
(* Concurrent calls of the adapters.  Two callers run an adapter each, on  *)
(* the same document or on two documents; a step of a call is the part of  *)
(* the function before its loop, one iteration of the loop over            *)
(* job_post_list, or the return after the loop.  The list a call builds is *)
(* a local of the call; the console adapter prints to the standard output  *)
(* of the process, which all calls share.                                  *)
(***************************************************************************)
Callers == {1, 2}

\* the list the loop of adapter a runs over
job_posts_of(a, data) ==
    IF a \in {"console", "mcp"}
    THEN data.data.job_post_list
    ELSE Get(Get(data, "data", EmptyDict), "job_post_list", <<>>)

\* the adapter returns from one of the checks before its loop
returns_early(a, data) ==
    CASE a = "console" -> \/ TruthyStr(Get(data, "error", None))
                          \/ CodeNotZero(data)
                          \/ "data" \notin DOMAIN data
                          \/ "job_post_list" \notin DOMAIN data.data
      [] a = "mcp"     -> \/ TruthyStr(Get(data, "error", None))
                          \/ CodeNotZero(data)
                          \/ no_job_data(data)
      [] a = "rest"    -> TruthyStr(Get(data, "error", None)) \/ CodeNotZero(data)
      [] a = "agent"   -> TruthyStr(Get(data, "error", None))

\* what the adapter returns (the console adapter: prints) from those checks
early_outcome(a, data) ==
    CASE a = "console" -> print_job_results(data)
      [] a = "mcp"     -> format_job_results(data)
      [] a = "rest"    -> search_jobs_internal(data)
      [] a = "agent"   -> handle_job_search(data)

\* the body of the loop for one job
loop_body(a, job) ==
    CASE a = "console" -> print_job(job)
      [] a = "mcp"     -> format_job(job)
      [] a = "rest"    -> rest_job(job)
      [] a = "agent"   -> agent_job(job)

\* a changed loop whose list holds the last job only
loop_step_overwrite(worker, job) ==
    [worker EXCEPT !.i = @ + 1, !.result = <<loop_body(worker.adapter, job)>>]

\* one iteration: the job's record is appended to the call's own list
loop_step(worker, job) ==
    [worker EXCEPT !.i = @ + 1, !.result = Append(@, loop_body(worker.adapter, job))]

\* how an exception inside the loop leaves the adapter
raise_outcome(a) ==
    CASE a \in {"console", "mcp"} -> [kind |-> "Raised", exception |-> "AttributeError"]
      [] a = "rest"  -> [kind |-> "Raised", exception |-> "HTTPException 500"]
      [] a = "agent" -> [kind |-> "Failure", prefix |-> "Task failed: ",
                         reason |-> "'int' object is not subscriptable"]

\* what the adapter returns after its loop
success_outcome(a, data, result) ==
    LET data_section == Get(data, "data", EmptyDict)
        count        == total_count(data_section, job_posts_of(a, data))
    IN  CASE a \in {"console", "mcp"} ->
               [kind |-> "Success", totalCount |-> count,
                shown |-> Len(job_posts_of(a, data)), records |-> result]
          [] a = "rest" ->
               [kind |-> "Success", totalCount |-> count, records |-> result,
                prefix |-> "", reason |-> None]
          [] a = "agent" ->
               [kind |-> "Success", totalCount |-> count, records |-> result,
                search_timestamp |-> now]

\* print(...): a write to the standard output of the process
print(out, caller, a, text) ==
    IF a = "console" THEN Append(out, [by |-> caller, text |-> text]) ELSE out

\* the line `Found {total_count} job(s), showing {len(job_posts)} results`
found_line(data) ==
    [kind       |-> "Found",
     totalCount |-> total_count(data.data, data.data.job_post_list),
     shown      |-> Len(data.data.job_post_list)]

\* the lines of a job printed before its description raises
interrupted_job(job) == [kind |-> "Interrupted", title |-> Get(job, "title", "N/A")]

\* the documents given to the calls
ConcurrentDocuments ==
    LET engineer == [id |-> "9", title |-> "Engineer", code |-> "J9",
                     recruit_type |-> "social",
                     city_info |-> PyDict([name |-> "Shenzhen"]),
                     description |-> ShortText]
        manager  == [title |-> "Manager",
                     city_list |-> <<PyDict([name |-> "A"]), PyDict([name |-> "B"])>>]
        clerk    == [id |-> "8", title |-> "Clerk", description |-> NotAString]
    IN  { [error |-> "Request failed: timeout"],
          [code |-> 1, message |-> "denied"],
          [code |-> 0, data |-> [job_post_list |-> <<>>]],
          [code |-> 0, data |-> [count |-> 7, job_post_list |-> <<engineer, manager>>]],
          [code |-> 0, data |-> [job_post_list |-> <<manager, clerk>>]] }

\* a call that has not run yet
called(a, ref) ==
    [adapter |-> a, data |-> ref, pc |-> "called", i |-> 0, result |-> <<>>,
     outcome |-> NoOutcome]

\* two calls are about to run, on one document or on two
InitConcurrent ==
    /\ SearchIdle
    /\ active_webhooks = <<>> /\ webhooks = EmptyDict /\ monitor = EmptyDict
    /\ active_tasks = EmptyDict /\ stdin = <<>> /\ event = NoEvent
    /\ documents \in [1..2 -> ConcurrentDocuments]
    /\ \E a1 \in Adapters, a2 \in Adapters, ref \in 1..2 :
         workers = <<called(a1, 1), called(a2, ref)>>
    /\ stdout = <<>>

\* the call runs up to its loop, or returns from a check before it
CallAdapter(w) ==
    LET worker == workers[w]
        a      == worker.adapter
        data   == documents[worker.data]
    IN  /\ worker.pc = "called"
        /\ IF returns_early(a, data)
           THEN /\ workers' = [workers EXCEPT ![w].pc = "returned",
                                              ![w].outcome = early_outcome(a, data)]
                /\ stdout' = print(stdout, w, a, early_outcome(a, data))
           ELSE /\ workers' = [workers EXCEPT ![w].pc = "loop", ![w].i = 1]
                /\ stdout' = print(stdout, w, a, found_line(data))
        /\ event' = [op |-> "call", caller |-> w]
        /\ UNCHANGED <<searchVars, active_webhooks, webhooks, monitor, active_tasks,
                       stdin, documents>>

\* one iteration of the loop over job_post_list
LoopIteration(w) ==
    LET worker == workers[w]
        a      == worker.adapter
        jobs   == job_posts_of(a, documents[worker.data])
    IN  /\ worker.pc = "loop"
        /\ worker.i <= Len(jobs)
        /\ LET job == jobs[worker.i]
           IN  IF text_raises(job)
               THEN /\ workers' = [workers EXCEPT ![w].pc = "returned",
                                                  ![w].outcome = raise_outcome(a)]
                    /\ stdout' = print(stdout, w, a, interrupted_job(job))
               ELSE /\ workers' = [workers EXCEPT ![w] = loop_step(worker, job)]
                    /\ stdout' = print(stdout, w, a, loop_body(a, job))
        /\ event' = [op |-> "iteration", caller |-> w]
        /\ UNCHANGED <<searchVars, active_webhooks, webhooks, monitor, active_tasks,
                       stdin, documents>>

\* the loop is over: the call returns what it built
ReturnFromLoop(w) ==
    LET worker == workers[w]
        a      == worker.adapter
        data   == documents[worker.data]
    IN  /\ worker.pc = "loop"
        /\ worker.i > Len(job_posts_of(a, data))
        /\ workers' = [workers EXCEPT
                          ![w].pc = "returned",
                          ![w].outcome = success_outcome(a, data, worker.result)]
        /\ event' = [op |-> "return", caller |-> w]
        /\ UNCHANGED <<searchVars, active_webhooks, webhooks, monitor, active_tasks,
                       stdin, documents, stdout>>

NextConcurrent ==
    \E w \in Callers :
        \/ CallAdapter(w)
        \/ LoopIteration(w)
        \/ ReturnFromLoop(w)

SpecConcurrent == InitConcurrent /\ [][NextConcurrent]_vars

(***************************************************************************)
(* Vocabulary of the properties.                                           *)
(***************************************************************************)
\* the response carries a transport-level error marker (a non-empty string)
HasErrorMarker(x) == "error" \in DOMAIN x /\ x.error # ""

\* the response has a `data` object that contains `job_post_list`
HasJobList(x) == "data" \in DOMAIN x /\ "job_post_list" \in DOMAIN x.data

\* the source list of the response (empty when there is none)
JobList(x) == IF HasJobList(x) THEN x.data.job_post_list ELSE <<>>

Done == pc = "done"

\* the text of a failure
FailureText(o) == o.prefix \o o.reason

\* what adapter a returns for the raw response x
Normalize(a, x) ==
    CASE a = "console" -> print_job_results(x)
      [] a = "mcp"     -> format_job_results(x)
      [] a = "rest"    -> search_jobs_internal(x)
      [] a = "agent"   -> handle_job_search(x)

\* the record adapter a makes of one raw job record
NormalizeJob(a, job) ==
    CASE a = "console" -> print_job(job)
      [] a = "mcp"     -> format_job(job)
      [] a = "rest"    -> rest_job(job)
      [] a = "agent"   -> agent_job(job)

(***************************************************************************)
(* C1.  A raw response that carries the error marker is reported as a      *)
(* Failure whose reason is exactly that error string, whatever code,       *)
(* message and data the same response holds.                               *)
(***************************************************************************)
C1_ErrorMarkerFirst ==
    (Done /\ HasErrorMarker(raw))
        => (outcome.kind = "Failure" /\ outcome.reason = raw.error)

\* an error marker on a response that is otherwise a success with jobs
C1_Witness ==
    /\ Done /\ HasErrorMarker(raw)
    /\ "code" \in DOMAIN raw /\ raw.code = 0
    /\ "message" \in DOMAIN raw
    /\ Len(JobList(raw)) > 0
    /\ outcome.kind = "Failure" /\ outcome.reason = raw.error

(***************************************************************************)
(* C2.  A raw response without error marker and with code != 0 is reported *)
(* by every adapter as a Failure whose reason is the supplied message, or  *)
(* "API error" when there is no message; never as a Success.               *)
(***************************************************************************)
C2_ApiErrorIsFailure ==
    (Done /\ "error" \notin DOMAIN raw /\ "code" \in DOMAIN raw /\ raw.code # 0)
        => (/\ outcome.kind = "Failure"
            /\ outcome.reason = Get(raw, "message", "API error"))

(***************************************************************************)
(* C3 as claimed.  The API-status check applies only when code is present: *)
(* a response with no code key, no error marker and a data object holding  *)
(* job_post_list yields Success.                                           *)
(***************************************************************************)
C3_Original ==
    (Done /\ "code" \notin DOMAIN raw /\ "error" \notin DOMAIN raw /\ HasJobList(raw))
        => outcome.kind = "Success"

\* the default reason of an adapter's API-status failure
DefaultApiReason(a) == IF a = "rest" THEN "API error" ELSE "Unknown error"

(***************************************************************************)
(* C3 amended.  In the console, tool-protocol and REST adapters the        *)
(* API-status check also rejects a response that has no code key: with no  *)
(* error marker it yields Failure with the supplied message (else the      *)
(* adapter's default reason), even when data holds job_post_list.  Only    *)
(* the agent adapter, which has no status check, goes on to format the     *)
(* list and yields Success when every entry can be formatted.              *)
(***************************************************************************)
C3_MissingCodeIsFailure ==
    (Done /\ "code" \notin DOMAIN raw /\ ~HasErrorMarker(raw) /\ HasJobList(raw))
        => IF adapter = "agent"
           THEN ~jobs_raise(JobList(raw)) => outcome.kind = "Success"
           ELSE /\ outcome.kind = "Failure"
                /\ outcome.reason = Get(raw, "message", DefaultApiReason(adapter))

\* a response without code whose data holds jobs, rejected by a status check
C3_Witness ==
    /\ Done /\ adapter # "agent"
    /\ DOMAIN raw = {"data"} /\ Len(JobList(raw)) > 0
    /\ outcome.kind = "Failure"

(***************************************************************************)
(* C4.  A raw response with code = 0 and no data is reported by every      *)
(* adapter as a Failure, never as a Success with an empty record list.     *)
(***************************************************************************)
C4_MissingDataIsFailure ==
    (Done /\ ~HasErrorMarker(raw) /\ "code" \in DOMAIN raw /\ raw.code = 0
          /\ "data" \notin DOMAIN raw)
        => outcome.kind = "Failure"

\* which of the four failure conditions a response is in ("none": neither)
Condition(x) ==
    IF HasErrorMarker(x) THEN "transport"
    ELSE IF "code" \in DOMAIN x /\ x.code # 0 THEN "api"
    ELSE IF "code" \notin DOMAIN x THEN "none"
    ELSE IF "data" \notin DOMAIN x THEN "no data"
    ELSE IF "job_post_list" \notin DOMAIN x.data THEN "no job list"
    ELSE "none"

(***************************************************************************)
(* C5.  The failures of the four conditions (transport error, API error,   *)
(* data absent, job_post_list absent) are pairwise distinguishable: no     *)
(* response in another condition gets the same failure text from the same  *)
(* adapter.                                                                *)
(***************************************************************************)
C5_DistinctFailures ==
    (Done /\ adapter \in {"console", "mcp"} /\ Condition(raw) # "none")
        => /\ outcome.kind = "Failure"
           /\ \A y \in RawResponses :
                (Condition(y) \notin {"none", Condition(raw)})
                    => FailureText(Normalize(adapter, y)) # FailureText(outcome)

(***************************************************************************)
(* C6.  On Success the records follow the source list: the same length,    *)
(* the i-th record made from the i-th entry, nothing dropped, duplicated   *)
(* or cut to the limit of the query.                                       *)
(***************************************************************************)
C6_RecordsFollowSource ==
    (Done /\ outcome.kind = "Success" /\ HasJobList(raw))
        => /\ Len(outcome.records) = Len(JobList(raw))
           /\ \A i \in 1..Len(JobList(raw)) :
                outcome.records[i] = NormalizeJob(adapter, JobList(raw)[i])

\* a list longer than the limit, with different entries, kept whole
C6_Witness ==
    /\ Done /\ outcome.kind = "Success"
    /\ Len(JobList(raw)) > limit
    /\ JobList(raw)[1] # JobList(raw)[2]
    /\ Len(outcome.records) = Len(JobList(raw))

(***************************************************************************)
(* C7.  A response with successful status whose job_post_list is the empty *)
(* list is a Success with no records and totalCount = data.count if given, *)
(* else 0; never a Failure.                                                *)
(***************************************************************************)
C7_EmptyListIsSuccess ==
    (Done /\ ~HasErrorMarker(raw) /\ "code" \in DOMAIN raw /\ raw.code = 0
          /\ HasJobList(raw) /\ JobList(raw) = <<>>)
        => /\ outcome.kind = "Success"
           /\ outcome.records = <<>>
           /\ outcome.totalCount = Get(raw.data, "count", 0)

\* an empty list reported with the count the response gives
C7_Witness ==
    /\ Done /\ "error" \notin DOMAIN raw /\ "code" \in DOMAIN raw /\ raw.code = 0
    /\ HasJobList(raw) /\ JobList(raw) = <<>>
    /\ "count" \in DOMAIN raw.data /\ raw.data.count = 7
    /\ outcome.kind = "Success" /\ outcome.totalCount = 7

(***************************************************************************)
(* C8.  On Success totalCount is data.count whenever the count key is      *)
(* present (also when it is 0 or differs from the number of records), and  *)
(* is the number of produced records when count is absent.                 *)
(***************************************************************************)
C8_TotalCount ==
    (Done /\ outcome.kind = "Success")
        => LET d == Get(raw, "data", EmptyDict)
           IN  outcome.totalCount =
                   IF "count" \in DOMAIN d THEN d.count ELSE Len(outcome.records)

\* a count of 0 reported beside two records
C8_Witness ==
    /\ Done /\ outcome.kind = "Success"
    /\ HasJobList(raw) /\ "count" \in DOMAIN raw.data /\ raw.data.count = 0
    /\ Len(outcome.records) = 2
    /\ outcome.totalCount = 0

(***************************************************************************)
(* C9.  In every record of every adapter title, code and recruitType are   *)
(* the source value when the key is present and "N/A" when it is missing,  *)
(* and id is the source value when present and the empty string when       *)
(* missing.                                                                *)
(***************************************************************************)
C9_FieldDefaults ==
    (Done /\ outcome.kind = "Success")
        => \A i \in 1..Len(outcome.records) :
             LET job == JobList(raw)[i]
                 rec == outcome.records[i]
             IN  /\ rec.title = Get(job, "title", "N/A")
                 /\ rec.code = Get(job, "code", "N/A")
                 /\ rec.recruitType = Get(job, "recruit_type", "N/A")
                 /\ rec.id = Get(job, "id", "")

\* the single location the claim names for a city_info value
ClaimedLocation(c) ==
    CASE c.t = "dict" /\ "name" \in DOMAIN c.d -> c.d.name
      [] c.t = "dict" -> StrOfDict(c.d)
      [] c.t = "str"  -> c.s
      [] OTHER        -> StrOf(c)

(***************************************************************************)
(* C10 as claimed.  Whenever the key city_info is present in a raw job     *)
(* record, whatever its value, locations has exactly one element (the      *)
(* name, else the string form, else the string itself) and city_list is    *)
(* not consulted.                                                          *)
(***************************************************************************)
C10_Original ==
    (Done /\ outcome.kind = "Success")
        => \A i \in 1..Len(outcome.records) :
             LET job == JobList(raw)[i]
             IN  "city_info" \in DOMAIN job
                     => outcome.records[i].locations
                            = <<ClaimedLocation(job.city_info)>>

\* null, the empty string and the empty object
EmptyCity(c) == c = PyNull \/ c = PyStr("") \/ c = PyDict(EmptyDict)

\* the dict d without key k
WithoutKey(d, k) == [x \in DOMAIN d \ {k} |-> d[x]]

(***************************************************************************)
(* C10 amended.  Whenever city_info is present with a non-empty value (a   *)
(* non-empty string or a non-empty object), locations has exactly one      *)
(* element (the name, else the string form, else the string itself) and    *)
(* city_list is not consulted; a city_info that is null, the empty string  *)
(* or the empty object is treated as absent.                               *)
(***************************************************************************)
C10_CityInfoNonEmpty ==
    (Done /\ outcome.kind = "Success")
        => \A i \in 1..Len(outcome.records) :
             LET job == JobList(raw)[i]
                 rec == outcome.records[i]
             IN  "city_info" \in DOMAIN job
                     => IF EmptyCity(job.city_info)
                        THEN rec.locations =
                                 NormalizeJob(adapter, WithoutKey(job, "city_info")).locations
                        ELSE rec.locations = <<ClaimedLocation(job.city_info)>>

\* an object without name beside a non-empty city_list: one location, the
\* object's string form
C10_Witness ==
    /\ Done /\ outcome.kind = "Success" /\ Len(outcome.records) = 1
    /\ "city_info" \in DOMAIN JobList(raw)[1]
    /\ JobList(raw)[1].city_info = PyDict([code |-> "c1"])
    /\ "city_list" \in DOMAIN JobList(raw)[1]
    /\ Len(JobList(raw)[1].city_list) = 2
    /\ outcome.records[1].locations = <<"{'code': 'c1'}">>

(***************************************************************************)
(* C11.  When city_info is absent and city_list is present, locations has  *)
(* the length of city_list and its k-th element is the single-location     *)
(* extraction (name, else string form) of the k-th list element, in source *)
(* order; when neither key is present locations is the empty sequence.     *)
(***************************************************************************)
C11_CityListInOrder ==
    (Done /\ outcome.kind = "Success")
        => \A i \in 1..Len(outcome.records) :
             LET job  == JobList(raw)[i]
                 locs == outcome.records[i].locations
             IN  "city_info" \notin DOMAIN job
                     => IF "city_list" \in DOMAIN job
                        THEN /\ Len(locs) = Len(job.city_list)
                             /\ \A k \in 1..Len(job.city_list) :
                                  locs[k] = ClaimedLocation(job.city_list[k])
                        ELSE locs = <<>>

\* a city_list of a plain string and an object without name, both kept in order
C11_Witness ==
    /\ Done /\ outcome.kind = "Success" /\ Len(outcome.records) = 1
    /\ "city_info" \notin DOMAIN JobList(raw)[1]
    /\ "city_list" \in DOMAIN JobList(raw)[1]
    /\ JobList(raw)[1].city_list = <<PyStr("C"), PyDict([code |-> "c1"])>>
    /\ outcome.records[1].locations = <<"C", "{'code': 'c1'}">>

(***************************************************************************)
(* C12.  Every record's detail URL is exactly                              *)
(* "https://xiaomi.jobs.f.mioffice.cn/index/position/" + id + "/detail",   *)
(* with the empty string for an absent id, so it is a function of id alone *)
(* and records with equal id get equal URLs.                               *)
(***************************************************************************)
C12_DetailUrl ==
    (Done /\ outcome.kind = "Success")
        => /\ \A i \in 1..Len(outcome.records) :
                outcome.records[i].detailUrl =
                    "https://xiaomi.jobs.f.mioffice.cn/index/position/"
                        \o Get(JobList(raw)[i], "id", "") \o "/detail"
           /\ \A i, j \in 1..Len(outcome.records) :
                Get(JobList(raw)[i], "id", "") = Get(JobList(raw)[j], "id", "")
                    => outcome.records[i].detailUrl = outcome.records[j].detailUrl

\* two different entries without id, both with the empty id segment
C12_Witness ==
    /\ Done /\ outcome.kind = "Success" /\ Len(outcome.records) = 2
    /\ JobList(raw)[1] # JobList(raw)[2]
    /\ "id" \notin DOMAIN JobList(raw)[1] /\ "id" \notin DOMAIN JobList(raw)[2]
    /\ outcome.records[2].detailUrl =
           "https://xiaomi.jobs.f.mioffice.cn/index/position//detail"

(***************************************************************************)
(* Vocabulary of the preview claims.                                       *)
(***************************************************************************)
Min(a, b) == IF a < b THEN a ELSE b

\* the preview is the first min(L, bound) characters of `text`, L its length,
\* followed by "..." exactly when L > bound
TruncationLaw(preview, text, bound) ==
    LET L    == Len(text)
        kept == Min(L, bound)
    IN  /\ Len(preview) >= kept
        /\ SubSeq(preview, 1, kept) = SubSeq(text, 1, kept)
        /\ IF L > bound THEN SubSeq(preview, kept + 1, Len(preview)) = Ellipsis
           ELSE Len(preview) = kept
        /\ Len(preview) <= bound + 3

\* the source text with newlines and carriage returns replaced by spaces, trimmed
CleanedText(text) == Strip(Replace(Replace(text, "\n", " "), "\r", " "))

EndsWithEllipsis(preview) ==
    /\ Len(preview) >= 3
    /\ SubSeq(preview, Len(preview) - 2, Len(preview)) = Ellipsis

\* the documented preview bound of a field in an adapter
PreviewBound(a, field) ==
    CASE a \in {"console", "mcp"} -> IF field = "description" THEN DescBound ELSE ReqBound
      [] a = "rest"  -> RestBound
      [] a = "agent" -> AgentBound

PreviewOf(rec, field) ==
    IF field = "description" THEN rec.descriptionPreview ELSE rec.requirementPreview

TextFields == {"description", "requirement"}

(***************************************************************************)
(* C13 as stated.  Truncation law on the source text: for a description    *)
(* (bound 150) or requirement (bound 100) source text of length L, the     *)
(* preview is min(L, bound) characters of text followed by "..." exactly   *)
(* when L > bound, and is never longer than bound + 3.  Violated: the      *)
(* length test is made after the text is cleaned and trimmed.              *)
(***************************************************************************)
C13_Original ==
    (Done /\ adapter \in {"console", "mcp"} /\ outcome.kind = "Success")
        => \A i \in 1..Len(outcome.records) : \A f \in TextFields :
             TruncationLaw(PreviewOf(outcome.records[i], f),
                           Get(JobList(raw)[i], f, <<>>),
                           PreviewBound(adapter, f))

(***************************************************************************)
(* C13, amended.  Truncation law on the cleaned text: with L the length of *)
(* the text after its newlines and carriage returns are replaced by spaces *)
(* and it is trimmed, the preview of the console and tool-protocol         *)
(* adapters is the first min(L, bound) characters of that cleaned text,    *)
(* followed by "..." exactly when L > bound (bound 150 for description,    *)
(* 100 for requirement); its length never exceeds bound + 3.               *)
(***************************************************************************)
C13_CleanedTruncationLaw ==
    (Done /\ adapter \in {"console", "mcp"} /\ outcome.kind = "Success")
        => \A i \in 1..Len(outcome.records) : \A f \in TextFields :
             TruncationLaw(PreviewOf(outcome.records[i], f),
                           CleanedText(Get(JobList(raw)[i], f, <<>>)),
                           PreviewBound(adapter, f))

\* a padded description of 200 characters of text gives a preview of 153
C13_Witness ==
    /\ Done /\ adapter = "mcp" /\ outcome.kind = "Success"
    /\ Len(outcome.records) = 1
    /\ "description" \in DOMAIN JobList(raw)[1]
    /\ Len(JobList(raw)[1].description) > 200
    /\ Len(CleanedText(JobList(raw)[1].description)) = 200
    /\ Len(outcome.records[1].descriptionPreview) = 153
    /\ EndsWithEllipsis(outcome.records[1].descriptionPreview)

(***************************************************************************)
(* C14.  In every adapter a preview ends with an appended "..." only when  *)
(* the original text exceeds the preview bound: a non-empty text within    *)
(* the bound is returned without any appended "...".                       *)
(***************************************************************************)
C14_EllipsisOnlyWhenLonger ==
    (Done /\ outcome.kind = "Success")
        => \A i \in 1..Len(outcome.records) : \A f \in TextFields :
             LET text == Get(JobList(raw)[i], f, <<>>)
             IN  (text # <<>> /\ Len(text) <= PreviewBound(adapter, f))
                     => ~EndsWithEllipsis(PreviewOf(outcome.records[i], f))

(***************************************************************************)
(* C15.  Every preview contains no newline or carriage return and has no   *)
(* leading or trailing whitespace, and the preview of an absent or empty   *)
(* source field is the empty string.                                       *)
(***************************************************************************)
C15_PreviewIsClean ==
    (Done /\ outcome.kind = "Success")
        => \A i \in 1..Len(outcome.records) : \A f \in TextFields :
             LET text    == Get(JobList(raw)[i], f, <<>>)
                 preview == PreviewOf(outcome.records[i], f)
             IN  /\ \A k \in 1..Len(preview) : preview[k] \notin {"\n", "\r"}
                 /\ preview # <<>>
                        => /\ preview[1] \notin Whitespace
                           /\ preview[Len(preview)] \notin Whitespace
                 /\ text = <<>> => preview = <<>>

(***************************************************************************)
(* C17.  One malformed entry in job_post_list (a missing title, an absent  *)
(* id, a field of unexpected shape) never discards the rest: the outcome   *)
(* is still a Success with one record per entry, and every well-formed     *)
(* entry yields the record it would yield alone.                           *)
(***************************************************************************)
C17_MalformedEntryIsolated ==
    (Done /\ ~HasErrorMarker(raw) /\ ~CodeNotZero(raw) /\ HasJobList(raw))
        => /\ outcome.kind = "Success"
           /\ Len(outcome.records) = Len(JobList(raw))
           /\ \A i \in 1..Len(JobList(raw)) :
                ~text_raises(JobList(raw)[i])
                    => outcome.records[i] = NormalizeJob(adapter, JobList(raw)[i])

WithoutTimestamp(o) == [f \in DOMAIN o \ {"search_timestamp"} |-> o[f]]

C18_NothingRaises ==
    Done => outcome.kind # "Raised"

(***************************************************************************)
(* C20.  The JSON body an adapter posts mirrors the caller's query:        *)
(* keyword, limit, offset and the location filter equal the supplied       *)
(* values, the filter lists not supplied are empty, and portal_type = 6    *)
(* and portal_entrance = 1 are always present.                             *)
(***************************************************************************)
C20_PayloadMirrorsQuery ==
    payload # NoPayload
        => /\ payload.keyword = query.keyword
           /\ payload.limit = limit
           /\ payload.offset = query.offset
           /\ payload.location_code_list = query.location_codes
           /\ \A f \in {"job_category_id_list", "tag_id_list", "subject_id_list",
                        "recruitment_id_list", "job_function_id_list",
                        "storefront_id_list"} : payload[f] = <<>>
           /\ payload.portal_type = 6
           /\ payload.portal_entrance = 1

(***************************************************************************)
(* Vocabulary of the webhook claims.                                       *)
(***************************************************************************)
\* webhook dict k is on the registry's list
Registered(k) == \E i \in 1..Len(active_webhooks) : active_webhooks[i] = k

\* the search result holds a non-empty job list
NonEmptyJobList(results) ==
    /\ "data" \in DOMAIN results
    /\ results.data # PyNull
    /\ "job_post_list" \in DOMAIN results.data
    /\ Len(results.data.job_post_list) > 0

(***************************************************************************)
(* C22.  Monitoring loops of different webhooks are independent: a step of *)
(* the loop of webhook w changes only w's own last_check and               *)
(* total_notifications, no field of another webhook and not the            *)
(* membership of the registry.                                             *)
(***************************************************************************)
C22_LoopsAreIndependent ==
    [][ event'.op = "iterate" =>
          LET w == event'.ref
          IN  /\ active_webhooks' = active_webhooks
              /\ Len(webhooks') = Len(webhooks)
              /\ \A j \in 1..Len(webhooks) : j # w => webhooks'[j] = webhooks[j]
              /\ \A f \in DOMAIN webhooks[w] \ {"last_check", "total_notifications"} :
                    webhooks'[w][f] = webhooks[w][f] ]_vars

\* two registered webhooks, one notified and checked, the other untouched
C22_Witness ==
    /\ event.op = "iterate"
    /\ Len(active_webhooks) >= 2
    /\ webhooks[event.ref].total_notifications = 1
    /\ \E j \in 1..Len(webhooks) :
         /\ j # event.ref /\ Registered(j)
         /\ webhooks[j].total_notifications = 0
         /\ webhooks[j].last_check = None

(***************************************************************************)
(* C23.  After any sequence of register_webhook and delete_webhook calls   *)
(* no two webhooks in the active registry have the same id.                *)
(***************************************************************************)
C23_UniqueIds ==
    \A i, j \in 1..Len(active_webhooks) :
        i # j => webhooks[active_webhooks[i]].id # webhooks[active_webhooks[j]].id

(***************************************************************************)
(* C24.  delete_webhook with an id that matches no active webhook fails    *)
(* with 404 and leaves the registry unchanged; with a matching id it       *)
(* removes what matches and leaves every other webhook, and their          *)
(* relative order, unchanged.                                              *)
(***************************************************************************)
C24_DeleteWebhook ==
    [][ event'.op = "delete" =>
          LET id      == event'.webhook_id
              other(k) == webhooks[k].id # id
          IN  /\ webhooks' = webhooks
              /\ IF \A i \in 1..Len(active_webhooks) : other(active_webhooks[i])
                 THEN event'.status = 404 /\ active_webhooks' = active_webhooks
                 ELSE /\ event'.status = 200
                      /\ active_webhooks' = SelectSeq(active_webhooks, other) ]_vars

\* the middle one of three webhooks deleted, the other two left in order
C24_Witness ==
    /\ event.op = "delete" /\ event.status = 200 /\ event.webhook_id = 2
    /\ active_webhooks = <<1, 3>>
    /\ webhooks[1].id = 1 /\ webhooks[3].id = 3

(***************************************************************************)
(* C25.  Once delete_webhook has removed a webhook, its monitoring loop    *)
(* sends no further notification for it, writes nothing to it, and its     *)
(* next step is to terminate; as long as the webhook stays registered the  *)
(* loop has not exited, also after an iteration that raised an error.      *)
(***************************************************************************)
C25_LoopFollowsRegistry ==
    /\ [](\A k \in 1..Len(webhooks) : monitor[k] = "exited" => ~Registered(k))
    /\ [][ /\ event'.op = "iterate" => Registered(event'.ref)
           /\ \A k \in 1..Len(webhooks) :
                (~Registered(k) /\ monitor[k] # "exited")
                    => /\ webhooks'[k] = webhooks[k]
                       /\ monitor'[k] # monitor[k] => monitor'[k] = "exited" ]_vars

\* a loop that notified, then exited after its webhook was deleted, while
\* another webhook is still registered and its loop running
C25_Witness ==
    /\ event.op = "exit"
    /\ monitor[event.ref] = "exited"
    /\ webhooks[event.ref].total_notifications = 1
    /\ \E j \in 1..Len(webhooks) : Registered(j) /\ monitor[j] = "running"

C28_TransportErrorFailsTask ==
    ( /\ event.op = "process_task"
      /\ \/ Contains(Lower(event.instruction), "search")
         \/ Contains(Lower(event.instruction), "find jobs")
      /\ HasErrorMarker(event.results) )
        => /\ event.response.status = "failed"
           /\ event.response.message = "Task failed: " \o event.results.error
           /\ event.response.artifacts = PyNull

\* a job-search task whose search ended in a transport error
C28_Witness ==
    /\ event.op = "process_task"
    /\ event.instruction = "FIND JOBS in Beijing"
    /\ HasErrorMarker(event.results)
    /\ event.response.status = "failed"
    /\ event.response.message = "Task failed: Request failed: timeout"

\* the artifact type each handler returns
ArtifactType(handler) ==
    CASE handler = "search"    -> "job_search_results"
      [] handler = "market"    -> "market_analysis"
      [] handler = "recommend" -> "job_recommendations"
      [] handler = "general"   -> "general_info"

\* the handler the priority order of the claim selects
ExpectedHandler(instruction) ==
    LET has(word) == Contains(Lower(instruction), word)
    IN  IF has("search") \/ has("find jobs") THEN "search"
        ELSE IF has("analyze") \/ has("market") THEN "market"
        ELSE IF has("recommend") \/ has("suggest") THEN "recommend"
        ELSE "general"

(***************************************************************************)
(* C29.  process_task dispatches each instruction, lower-cased, to exactly *)
(* one handler by fixed priority: job search if it contains "search" or    *)
(* "find jobs", else market analysis if it contains "analyze" or "market", *)
(* else recommendations if it contains "recommend" or "suggest", else the  *)
(* general query; a completed task carries that handler's artifact, and    *)
(* only the job search can fail on these responses.                        *)
(***************************************************************************)
C29_DispatchByPriority ==
    event.op = "process_task"
        => LET expected == ExpectedHandler(event.instruction)
               task     == event.response
           IN  /\ task.status = "completed"
                    => task.artifacts.items[1].type = ArtifactType(expected)
               /\ task.status = "failed" => expected = "search"

\* instructions that match several groups go to the earliest one
C29_Witness ==
    /\ event.op = "process_task"
    /\ event.instruction = "Market search"
    /\ event.response.status = "completed"
    /\ event.response.artifacts.items[1].type = "job_search_results"
    /\ "t2" \in DOMAIN active_tasks
    /\ active_tasks["t2"].status = "completed"
    /\ active_tasks["t2"].artifacts.items[1].type = "market_analysis"
    /\ event.task_id = "t1"

\* a response line with id 1 and a non-empty result content
AnswerLine(line) ==
    /\ line.kind = "json"
    /\ line.value.t = "dict"
    /\ "id" \in DOMAIN line.value.d /\ line.value.d.id = 1
    /\ "result" \in DOMAIN line.value.d
    /\ "content" \in DOMAIN line.value.d.result
    /\ Len(line.value.d.result.content) > 0
    /\ "text" \in DOMAIN line.value.d.result.content[1]

\* a line that parses as JSON but is not shaped like a response: not an
\* object, or an id-1 result without `content` or without a text in it
MisshapenLine(line) ==
    /\ line.kind = "json"
    /\ \/ line.value.t # "dict"
       \/ /\ "id" \in DOMAIN line.value.d /\ line.value.d.id = 1
          /\ "result" \in DOMAIN line.value.d
          /\ \/ "content" \notin DOMAIN line.value.d.result
             \/ /\ Len(line.value.d.result.content) > 0
                /\ "text" \notin DOMAIN line.value.d.result.content[1]

\* the requests were written in the order initialize (id 0), tools/call (id 1)
InitializeFirst ==
    \A j \in 1..Len(stdin) :
        stdin[j].method = "tools/call"
            => /\ stdin[j].id = 1
               /\ \E i \in 1..(j - 1) : stdin[i].method = "initialize" /\ stdin[i].id = 0

IsClientError(text) ==
    Len(text) >= 18 /\ SubSeq(text, 1, 18) = "MCP Client Error: "

(***************************************************************************)
(* C30, as stated.  The client writes initialize (id 0) before tools/call  *)
(* (id 1) and returns the text of the first output line with id 1 and a    *)
(* non-empty result content; a non-zero exit gives "MCP Error: ...", and   *)
(* when no such line exists it returns "No valid response from MCP         *)
(* server"; it never raises.                                               *)
(***************************************************************************)
C30_ClientReturns ==
    (event.op = "search_jobs_via_mcp" /\ event.process.spawned)
        => LET lines   == event.process.stdout
               answers == {i \in 1..Len(lines) : AnswerLine(lines[i])}
           IN  /\ InitializeFirst /\ Len(stdin) = 2
               /\ event.response.kind = "Returned"
               /\ IF event.process.returncode # 0
                  THEN event.response.text = "MCP Error: " \o event.process.stderr
                  ELSE IF answers = {}
                       THEN event.response.text = "No valid response from MCP server"
                       ELSE \E i \in answers :
                              /\ \A j \in answers : i <= j
                              /\ event.response.text = lines[i].value.d.result.content[1].text

(***************************************************************************)
(* C30, amended.  The client writes initialize (id 0) before tools/call    *)
(* (id 1) and never raises.  A non-zero exit gives "MCP Error: " followed  *)
(* by the server's error output.  Otherwise the output lines are scanned   *)
(* in order up to the first line that either has id 1 and a non-empty      *)
(* result content or parses as JSON without the shape of a response: the   *)
(* former returns the text of its first content item, the latter returns   *)
(* an "MCP Client Error: ..." string, and when neither exists the result   *)
(* is "No valid response from MCP server".  A server that cannot be        *)
(* started gives an "MCP Client Error: ..." string and nothing is written. *)
(***************************************************************************)
C30_ClientReturnsOrReportsClientError ==
    event.op = "search_jobs_via_mcp"
        => /\ event.response.kind = "Returned"
           /\ InitializeFirst
           /\ IF ~event.process.spawned
              THEN /\ stdin = <<>>
                   /\ event.response.text = "MCP Client Error: " \o event.process.exception
              ELSE LET lines == event.process.stdout
                       stops == {i \in 1..Len(lines) :
                                    AnswerLine(lines[i]) \/ MisshapenLine(lines[i])}
                   IN  /\ Len(stdin) = 2
                       /\ stdin[2].params.arguments =
                            [keyword |-> event.keyword, limit |-> McpLimit]
                       /\ IF event.process.returncode # 0
                          THEN event.response.text = "MCP Error: " \o event.process.stderr
                          ELSE IF stops = {}
                          THEN event.response.text = "No valid response from MCP server"
                          ELSE \E i \in stops :
                                 /\ \A j \in stops : i <= j
                                 /\ IF AnswerLine(lines[i])
                                    THEN event.response.text =
                                           lines[i].value.d.result.content[1].text
                                    ELSE IsClientError(event.response.text)

\* a JSON line that is not an object comes before the answer: the answer is
\* not returned
C30_Witness ==
    /\ event.op = "search_jobs_via_mcp"
    /\ event.process.spawned /\ event.process.returncode = 0
    /\ Len(event.process.stdout) = 2
    /\ MisshapenLine(event.process.stdout[1])
    /\ AnswerLine(event.process.stdout[2])
    /\ IsClientError(event.response.text)
    /\ Len(stdin) = 2 /\ stdin[1].id = 0 /\ stdin[2].id = 1

\* what one console call prints when it runs alone
ConsoleOutput(x) ==
    IF returns_early("console", x) THEN <<print_job_results(x)>>
    ELSE LET jobs   == x.data.job_post_list
             raises == {i \in 1..Len(jobs) : text_raises(jobs[i])}
             last   == IF raises = {} THEN Len(jobs)
                       ELSE CHOOSE i \in raises : \A j \in raises : i <= j
         IN  <<found_line(x)>> \o
             [i \in 1..last |-> IF i \in raises THEN interrupted_job(jobs[i])
                                ELSE print_job(jobs[i])]

\* what caller w wrote to the standard output, in order
WrittenBy(w) ==
    LET own == SelectSeq(stdout, LAMBDA entry : entry.by = w)
    IN  [i \in 1..Len(own) |-> own[i].text]

\* every call that returned has the outcome it has when it runs alone, and
\* printed what it prints alone
SequentialOutcomes ==
    \A w \in DOMAIN workers :
        workers[w].pc = "returned"
            => /\ workers[w].outcome =
                    Normalize(workers[w].adapter, documents[workers[w].data])
               /\ WrittenBy(w) = IF workers[w].adapter = "console"
                                 THEN ConsoleOutput(documents[workers[w].data])
                                 ELSE <<>>

\* the standard output holds the writes of one call after those of the other
OutputNotInterleaved ==
    \A i \in 1..Len(stdout), k \in 1..Len(stdout) :
        (i < k /\ stdout[i].by = stdout[k].by)
            => \A j \in i..k : stdout[j].by = stdout[i].by

====
